---- MODULE Spec2Model ----
(***************************************************************************)
(* Courseaway backend: the REST handlers of src/api/views.py over the five *)
(* tables of src/api/models.py, with the serializers of                    *)
(* src/api/serializers.py and the permission classes of                    *)
(* src/api/permissions.py.                                                 *)
(*                                                                         *)
(* One action is one HTTP request handled to completion, except in         *)
(* SpecRace, where a create is two steps, its checks and its INSERT, so    *)
(* that two workers can overlap.  The tables are functions from primary    *)
(* key to row; req is the request just handled and resp the response it    *)
(* got (HTTP status, the kind of error body and, for a read, its rows).    *)
(* Float columns (completion_percentage, grade, score) take integral       *)
(* values here; a nullable column is a set with at most one element.       *)
(***************************************************************************)
EXTENDS Integers, FiniteSets, Sequences, TLC

VARIABLES
    users,        \* User rows:            id -> [email, role, first_name, password]
    courses,      \* Course rows:          id -> [instructor, title, is_active]
    contents,     \* CourseContent rows:   id -> [course, title, is_active]
    enrollments,  \* Enrollment rows:      id -> [student, course, status, completion_percentage, grade]
    progress,     \* StudentProgress rows: id -> [enrollment, content, is_completed]
    seq,          \* the AutoField sequences: table name -> next primary key
    req,          \* the request just handled
    resp,         \* its response: [status, error], with data for a read
    recorded,     \* history: the (enrollment, content) pairs POST /progress has created a row for
    inflight      \* worker -> the create request it has validated and not yet saved, or Idle

vars == <<users, courses, contents, enrollments, progress, seq, req, resp, recorded, inflight>>

db == <<users, courses, contents, enrollments, progress, seq>>

(***************************************************************************)
(* Bounds of the model.                                                    *)
(***************************************************************************)
\* Enrollment rows ever created in one run (the sequence stops there).
MaxEnrollments == 2
\* StudentProgress rows ever created in one run.
MaxProgress == 2
\* CourseContent rows ever created in one run.
MaxContents == 2
\* Course rows ever created in one run.
MaxCourses == 2
\* User rows ever created in one run.
MaxUsers == 3

(***************************************************************************)
(* Request values.  A JSON value of a request body is a number, a string   *)
(* holding a number ("2"), a string holding no number ("abc"), null, or    *)
(* the key is absent.                                                      *)
(***************************************************************************)
Absent == [k |-> "absent", v |-> 0]

Null == [k |-> "null", v |-> 0]

Junk == [k |-> "junk", v |-> 0]

Num(n) == [k |-> "num", v |-> n]

Str(n) == [k |-> "str", v |-> n]

\* Python's float(x) of update_progress: a number or a numeric string
\* converts, anything else raises ValueError or TypeError.
float(x) ==
    IF x.k \in {"num", "str"} THEN [ok |-> TRUE, val |-> x.v]
    ELSE [ok |-> FALSE, val |-> 0]

\* request.data.get(key): None when the key is absent or null.
IsNone(x) == x.k \in {"absent", "null"}

(***************************************************************************)
(* Responses.                                                              *)
(***************************************************************************)
Response(status, error) == [status |-> status, error |-> error]

\* The workers that serve requests side by side.
Workers == {1, 2}

\* A worker between two requests.
Idle == [op |-> "idle"]

NoneInFlight == [w \in Workers |-> Idle]

NoData == [none |-> TRUE]

Request(op, user, pk, data) == [op |-> op, user |-> user, pk |-> pk, data |-> data]

NoRequest == Request("none", 0, 0, NoData)

Unauthorized == Response(401, "not_authenticated")

NotFound == Response(404, "not_found")

PermissionDenied == Response(403, "permission_denied")

Invalid == Response(400, "invalid")

NotUnique == Response(400, "unique")

(***************************************************************************)
(* Tables.                                                                 *)
(***************************************************************************)
Insert(table, id, row) ==
    [i \in DOMAIN table \cup {id} |-> IF i = id THEN row ELSE table[i]]

Delete(table, ids) == [i \in DOMAIN table \ ids |-> table[i]]

Empty == [i \in {} |-> 0]

ENROLLMENT_STATUS == {"pending", "approved", "rejected", "completed"}

USER_ROLES == {"admin", "student"}

\* request.user.is_authenticated: the bearer token names a User row.
IsAuthenticated(user) == user \in DOMAIN users

role(user) == users[user].role

(***************************************************************************)
(* permissions.py                                                          *)
(***************************************************************************)
IsAdmin(user) == IsAuthenticated(user) /\ role(user) = "admin"

\* has_object_permission on a row that has a student attribute (Enrollment).
IsOwnerOrAdmin_student(user, row) ==
    \/ role(user) = "admin"
    \/ row.student = user

(***************************************************************************)
(* serializers.py: fields of a ModelSerializer.                            *)
(***************************************************************************)
\* PrimaryKeyRelatedField: a number or a numeric string naming a row of the
\* field's queryset.
PrimaryKeyRelatedField(x, queryset) ==
    IF x.k \in {"num", "str"} /\ x.v \in queryset
    THEN [ok |-> TRUE, val |-> x.v]
    ELSE [ok |-> FALSE, val |-> 0]

\* FloatField with MinValueValidator(0) and MaxValueValidator(100).
FloatField(x) ==
    IF x.k \in {"num", "str"} /\ 0 <= x.v /\ x.v <= 100
    THEN [ok |-> TRUE, val |-> x.v]
    ELSE [ok |-> FALSE, val |-> 0]

\* Enrollment.student: limit_choices_to role = student.
StudentChoices == {u \in DOMAIN users : users[u].role = "student"}

\* Course.instructor: limit_choices_to role = admin.
InstructorChoices == {u \in DOMAIN users : users[u].role = "admin"}

\* The row a new Enrollment starts from: the model's defaults.
EnrollmentDefaults ==
    [student |-> 0, course |-> 0, status |-> "pending",
     completion_percentage |-> 0, grade |-> {}]

\* Mutant: the uniqueness validator never finds the pair.
EnrollmentPairTaken_never(row, instance) == FALSE

\* unique_together = ['student', 'course'], as the serializer's
\* UniqueTogetherValidator: another row holds the pair.
EnrollmentPairTaken(row, instance) ==
    \E e \in DOMAIN enrollments \ {instance} :
        /\ enrollments[e].student = row.student
        /\ enrollments[e].course = row.course

\* EnrollmentSerializer(instance, data, partial).is_valid(): fields = '__all__',
\* read only id and enrolled_at, so student, course, status,
\* completion_percentage and grade are all writable.  instance = 0 on create.
\* Returns the row save() would write.
EnrollmentSerializer(data, instance, partial) ==
    LET old     == IF instance = 0 THEN EnrollmentDefaults ELSE enrollments[instance]
        student == PrimaryKeyRelatedField(data.student, StudentChoices)
        course  == PrimaryKeyRelatedField(data.course, DOMAIN courses)
        cp      == FloatField(data.completion_percentage)
        gr      == FloatField(data.grade)
        fieldsOk ==
            /\ IF data.student = Absent THEN partial ELSE student.ok
            /\ IF data.course = Absent THEN partial ELSE course.ok
            /\ data.status \in ENROLLMENT_STATUS \cup {"absent"}
            /\ data.completion_percentage = Absent \/ cp.ok
            /\ data.grade \in {Absent, Null} \/ gr.ok
        row ==
            [student |-> IF data.student = Absent THEN old.student ELSE student.val,
             course  |-> IF data.course = Absent THEN old.course ELSE course.val,
             status  |-> IF data.status = "absent" THEN old.status ELSE data.status,
             completion_percentage |->
                 IF data.completion_percentage = Absent
                 THEN old.completion_percentage ELSE cp.val,
             grade   |-> IF data.grade = Absent THEN old.grade
                         ELSE IF data.grade = Null THEN {} ELSE {gr.val}]
    IN  IF ~fieldsOk THEN [ok |-> FALSE, error |-> Invalid, row |-> old]
        ELSE IF EnrollmentPairTaken(row, instance)
        THEN [ok |-> FALSE, error |-> NotUnique, row |-> old]
        ELSE [ok |-> TRUE, error |-> Invalid, row |-> row]

(***************************************************************************)
(* views.py: EnrollmentViewSet.                                            *)
(***************************************************************************)
\* get_queryset: an admin sees every enrollment, anyone else their own.
Enrollment_get_queryset(user) ==
    IF role(user) = "admin" THEN DOMAIN enrollments
    ELSE {e \in DOMAIN enrollments : enrollments[e].student = user}

\* get_object: 404 outside the queryset, then the object permission.
\* Returns the response that ends the request, or OK.
OK == Response(200, "none")

Enrollment_get_object(user, pk) ==
    IF pk \notin Enrollment_get_queryset(user) THEN NotFound
    ELSE IF ~IsOwnerOrAdmin_student(user, enrollments[pk]) THEN PermissionDenied
    ELSE OK

\* request.data['student'] != request.user.id: Python compares the raw JSON
\* value with an int, so only a number equal to the id is equal.
RawEquals(x, n) == x.k = "num" /\ x.v = n

\* Mutant: the self-enrolment gate lets every caller through.
MayEnroll_anyone(user, data) == TRUE

\* create(), lines 107-108: a caller passes unless the body names a student
\* other than the caller and the caller is no admin.
MayEnroll(user, data) ==
    ~(data.student # Absent /\ ~RawEquals(data.student, user) /\ role(user) # "admin")

\* ON DELETE CASCADE from Enrollment to StudentProgress.
ProgressOfEnrollments(ids) == {p \in DOMAIN progress : progress[p].enrollment \in ids}

\* The outcome of a handler: its response and the tables it leaves.
Fail(r) ==
    [resp |-> r, users |-> users, courses |-> courses, contents |-> contents,
     enrollments |-> enrollments, progress |-> progress]

Outcome(r, e, p) == [Fail(r) EXCEPT !.enrollments = e, !.progress = p]

\* create(): POST /enrollments.
Enrollment_create(user, data) ==
    LET s == EnrollmentSerializer(data, 0, FALSE)
        id == seq.enrollment
    IN  IF ~MayEnroll(user, data)
        THEN Fail(Response(403, "enroll_self"))
        ELSE IF ~s.ok THEN Fail(s.error)
        ELSE IF \E e \in DOMAIN enrollments :
                    /\ enrollments[e].student = s.row.student
                    /\ enrollments[e].course = s.row.course
        THEN Fail(Response(400, "already_enrolled"))
        ELSE Outcome(Response(201, "none"), Insert(enrollments, id, s.row), progress)

\* update() and partial_update(): PUT and PATCH /enrollments/{pk}.
Enrollment_update(user, pk, data, partial) ==
    LET o == Enrollment_get_object(user, pk)
        s == EnrollmentSerializer(data, pk, partial)
    IN  IF o # OK THEN Fail(o)
        ELSE IF ~s.ok THEN Fail(s.error)
        ELSE Outcome(OK, [enrollments EXCEPT ![pk] = s.row], progress)

\* destroy(): DELETE /enrollments/{pk}.
Enrollment_destroy(user, pk) ==
    LET o == Enrollment_get_object(user, pk)
    IN  IF o # OK THEN Fail(o)
        ELSE Outcome(Response(204, "none"), Delete(enrollments, {pk}),
                     Delete(progress, ProgressOfEnrollments({pk})))

\* Mutant: update_progress saves each field as soon as it is validated, so a
\* valid completion_percentage is stored although the grade is then refused.
Enrollment_update_progress_eager(user, pk, data) ==
    LET o  == Enrollment_get_object(user, pk)
        cp == float(data.completion_percentage)
        gr == float(data.grade)
        e0 == enrollments[pk]
        e1 == IF IsNone(data.completion_percentage) THEN e0
              ELSE [e0 EXCEPT !.completion_percentage = cp.val]
        e2 == IF IsNone(data.grade) THEN e1 ELSE [e1 EXCEPT !.grade = {gr.val}]
        saved1 == [enrollments EXCEPT ![pk] = e1]
    IN  IF o # OK THEN Fail(o)
        ELSE IF ~(role(user) = "admin" \/ enrollments[pk].student = user)
        THEN Fail(PermissionDenied)
        ELSE IF ~IsNone(data.completion_percentage) /\ ~cp.ok
        THEN Fail(Response(400, "invalid_completion"))
        ELSE IF ~IsNone(data.completion_percentage) /\ (cp.val < 0 \/ cp.val > 100)
        THEN Fail(Response(400, "completion_range"))
        ELSE IF ~IsNone(data.grade) /\ ~gr.ok
        THEN Outcome(Response(400, "invalid_grade"), saved1, progress)
        ELSE IF ~IsNone(data.grade) /\ (gr.val < 0 \/ gr.val > 100)
        THEN Outcome(Response(400, "grade_range"), saved1, progress)
        ELSE Outcome(OK, [enrollments EXCEPT ![pk] = e2], progress)

\* update_progress(): PUT /enrollments/{pk}/update_progress.  The row is
\* changed in memory field by field and written by the one save() at the end.
Enrollment_update_progress(user, pk, data) ==
    LET o  == Enrollment_get_object(user, pk)
        cp == float(data.completion_percentage)
        gr == float(data.grade)
        e0 == enrollments[pk]
        e1 == IF IsNone(data.completion_percentage) THEN e0
              ELSE [e0 EXCEPT !.completion_percentage = cp.val]
        e2 == IF IsNone(data.grade) THEN e1 ELSE [e1 EXCEPT !.grade = {gr.val}]
    IN  IF o # OK THEN Fail(o)
        ELSE IF ~(role(user) = "admin" \/ enrollments[pk].student = user)
        THEN Fail(PermissionDenied)
        ELSE IF ~IsNone(data.completion_percentage) /\ ~cp.ok
        THEN Fail(Response(400, "invalid_completion"))
        ELSE IF ~IsNone(data.completion_percentage) /\ (cp.val < 0 \/ cp.val > 100)
        THEN Fail(Response(400, "completion_range"))
        ELSE IF ~IsNone(data.grade) /\ ~gr.ok
        THEN Fail(Response(400, "invalid_grade"))
        ELSE IF ~IsNone(data.grade) /\ (gr.val < 0 \/ gr.val > 100)
        THEN Fail(Response(400, "grade_range"))
        ELSE Outcome(OK, [enrollments EXCEPT ![pk] = e2], progress)

\* approve() and reject(): POST /enrollments/{pk}/approve, .../reject.
Enrollment_set_status(user, pk, status) ==
    LET o == Enrollment_get_object(user, pk)
    IN  IF o # OK THEN Fail(o)
        ELSE IF ~(role(user) = "admin" \/ courses[enrollments[pk].course].instructor = user)
        THEN Fail(PermissionDenied)
        ELSE Outcome(OK, [enrollments EXCEPT ![pk].status = status], progress)

Enrollment_approve(user, pk) == Enrollment_set_status(user, pk, "approved")

Enrollment_reject(user, pk) == Enrollment_set_status(user, pk, "rejected")

(***************************************************************************)
(* views.py: StudentProgressViewSet, with StudentProgressSerializer.       *)
(* A StudentProgress row is kept as [enrollment, content, is_completed];   *)
(* completed_at and score are stored as sent and read by no handler.       *)
(***************************************************************************)
\* unique_together = ['enrollment', 'content'], as the serializer's
\* UniqueTogetherValidator.
ProgressPairTaken(row, instance) ==
    \E p \in DOMAIN progress \ {instance} :
        /\ progress[p].enrollment = row.enrollment
        /\ progress[p].content = row.content

\* StudentProgressSerializer(instance, data, partial).is_valid(): fields =
\* '__all__', read only id.  data.is_completed is "absent", "true" or "false".
StudentProgressSerializer(data, instance, partial) ==
    LET old == IF instance = 0
               THEN [enrollment |-> 0, content |-> 0, is_completed |-> FALSE]
               ELSE progress[instance]
        enrollment == PrimaryKeyRelatedField(data.enrollment, DOMAIN enrollments)
        content    == PrimaryKeyRelatedField(data.content, DOMAIN contents)
        fieldsOk ==
            /\ IF data.enrollment = Absent THEN partial ELSE enrollment.ok
            /\ IF data.content = Absent THEN partial ELSE content.ok
            /\ data.is_completed \in {"absent", "true", "false"}
        row ==
            [enrollment |-> IF data.enrollment = Absent THEN old.enrollment
                            ELSE enrollment.val,
             content |-> IF data.content = Absent THEN old.content ELSE content.val,
             is_completed |-> IF data.is_completed = "absent" THEN old.is_completed
                              ELSE data.is_completed = "true"]
    IN  IF ~fieldsOk THEN [ok |-> FALSE, error |-> Invalid, row |-> old]
        ELSE IF ProgressPairTaken(row, instance)
        THEN [ok |-> FALSE, error |-> NotUnique, row |-> old]
        ELSE [ok |-> TRUE, error |-> Invalid, row |-> row]

\* get_queryset: an admin sees every row, anyone else the rows of their own
\* approved enrollments.
Progress_get_queryset(user) ==
    IF role(user) = "admin" THEN DOMAIN progress
    ELSE {p \in DOMAIN progress :
            /\ enrollments[progress[p].enrollment].student = user
            /\ enrollments[progress[p].enrollment].status = "approved"}

\* has_object_permission on a row with an enrollment attribute.
IsOwnerOrAdmin_enrollment(user, row) ==
    \/ role(user) = "admin"
    \/ enrollments[row.enrollment].student = user

Progress_get_object(user, pk) ==
    IF pk \notin Progress_get_queryset(user) THEN NotFound
    ELSE IF ~IsOwnerOrAdmin_enrollment(user, progress[pk]) THEN PermissionDenied
    ELSE OK

\* Mutant: progress may be recorded unless the enrollment was rejected.
ProgressAllowed_unlessRejected(status) == status # "rejected"

\* create(), line 267: progress needs an approved enrollment.
ProgressAllowed(status) == status = "approved"

\* Enrollment.objects.get(id=enrollment_id): the row, no row (DoesNotExist,
\* also for None), or a ValueError for a value that is no number, which no
\* handler catches.
Enrollment_get(x) ==
    IF x.k = "junk" THEN "error"
    ELSE IF x.k \in {"num", "str"} /\ x.v \in DOMAIN enrollments THEN "found"
    ELSE "missing"

\* create(): POST /progress.
Progress_create(user, data) ==
    LET s == StudentProgressSerializer(data, 0, FALSE)
        found == Enrollment_get(data.enrollment)
        id == seq.progress
    IN  IF found = "error" THEN Fail(Response(500, "server_error"))
        ELSE IF found = "missing" THEN Fail(Response(404, "enrollment_not_found"))
        ELSE IF ~ProgressAllowed(enrollments[data.enrollment.v].status)
        THEN Fail(Response(403, "not_approved"))
        ELSE IF \E p \in DOMAIN progress :
                    /\ progress[p].enrollment = data.enrollment.v
                    /\ data.content.k \in {"num", "str"}
                    /\ progress[p].content = data.content.v
        THEN Fail(Response(400, "already_recorded"))
        ELSE IF ~s.ok THEN Fail(s.error)
        ELSE Outcome(Response(201, "none"), enrollments, Insert(progress, id, s.row))

\* update() and partial_update(): PUT and PATCH /progress/{pk}.
Progress_update(user, pk, data, partial) ==
    LET o == Progress_get_object(user, pk)
        s == StudentProgressSerializer(data, pk, partial)
    IN  IF o # OK THEN Fail(o)
        ELSE IF ~s.ok THEN Fail(s.error)
        ELSE Outcome(OK, enrollments, [progress EXCEPT ![pk] = s.row])

\* destroy(): DELETE /progress/{pk}.
Progress_destroy(user, pk) ==
    LET o == Progress_get_object(user, pk)
    IN  IF o # OK THEN Fail(o)
        ELSE Outcome(Response(204, "none"), enrollments, Delete(progress, {pk}))

(***************************************************************************)
(* views.py: CourseViewSet and CourseContentViewSet.  The required text    *)
(* and date fields of a Course (title, description, start_date, end_date)  *)
(* and of a CourseContent (title, content_type) are kept as the one field  *)
(* title.                                                                  *)
(***************************************************************************)
\* IsAdminOrReadOnly.has_permission for an unsafe method (POST, PUT, PATCH,
\* DELETE).
IsAdminOrReadOnly_write(user) == IsAuthenticated(user) /\ role(user) = "admin"

BooleanInputs == {"absent", "true", "false"}

\* CourseSerializer(instance, data, partial).is_valid().
CourseSerializer(data, instance, partial) ==
    LET old == IF instance = 0
               THEN [instructor |-> 0, title |-> 0, is_active |-> TRUE]
               ELSE courses[instance]
        instructor == PrimaryKeyRelatedField(data.instructor, InstructorChoices)
        fieldsOk ==
            /\ IF data.instructor = Absent THEN partial ELSE instructor.ok
            /\ IF data.title = Absent THEN partial ELSE data.title.k = "num"
            /\ data.is_active \in BooleanInputs
        row ==
            [instructor |-> IF data.instructor = Absent THEN old.instructor
                            ELSE instructor.val,
             title |-> IF data.title = Absent THEN old.title ELSE data.title.v,
             is_active |-> IF data.is_active = "absent" THEN old.is_active
                           ELSE data.is_active = "true"]
    IN  [ok |-> fieldsOk, error |-> Invalid, row |-> IF fieldsOk THEN row ELSE old]

\* CourseContentSerializer(instance, data, partial).is_valid().
CourseContentSerializer(data, instance, partial) ==
    LET old == IF instance = 0
               THEN [course |-> 0, title |-> 0, is_active |-> TRUE]
               ELSE contents[instance]
        course == PrimaryKeyRelatedField(data.course, DOMAIN courses)
        fieldsOk ==
            /\ IF data.course = Absent THEN partial ELSE course.ok
            /\ IF data.title = Absent THEN partial ELSE data.title.k = "num"
            /\ data.is_active \in BooleanInputs
        row ==
            [course |-> IF data.course = Absent THEN old.course ELSE course.val,
             title |-> IF data.title = Absent THEN old.title ELSE data.title.v,
             is_active |-> IF data.is_active = "absent" THEN old.is_active
                           ELSE data.is_active = "true"]
    IN  [ok |-> fieldsOk, error |-> Invalid, row |-> IF fieldsOk THEN row ELSE old]

\* ON DELETE CASCADE from the courses ids: their contents and enrollments,
\* and the progress rows of either.
CascadeCourses(r, ids) ==
    LET cs == {c \in DOMAIN contents : contents[c].course \in ids}
        es == {e \in DOMAIN enrollments : enrollments[e].course \in ids}
        ps == {p \in DOMAIN progress :
                 progress[p].enrollment \in es \/ progress[p].content \in cs}
    IN  [Fail(r) EXCEPT !.courses = Delete(courses, ids),
                        !.contents = Delete(contents, cs),
                        !.enrollments = Delete(enrollments, es),
                        !.progress = Delete(progress, ps)]

\* CourseViewSet.create(): POST /courses.
Course_create(user, data) ==
    LET s == CourseSerializer(data, 0, FALSE)
    IN  IF ~IsAuthenticated(user) THEN Fail(Unauthorized)
        ELSE IF ~IsAdminOrReadOnly_write(user) THEN Fail(PermissionDenied)
        ELSE IF ~s.ok THEN Fail(s.error)
        ELSE [Fail(Response(201, "none")) EXCEPT
                 !.courses = Insert(courses, seq.course, s.row)]

\* CourseViewSet.update() and partial_update(): PUT and PATCH /courses/{pk}.
Course_update(user, pk, data, partial) ==
    LET s == CourseSerializer(data, pk, partial)
    IN  IF ~IsAuthenticated(user) THEN Fail(Unauthorized)
        ELSE IF ~IsAdminOrReadOnly_write(user) THEN Fail(PermissionDenied)
        ELSE IF pk \notin DOMAIN courses THEN Fail(NotFound)
        ELSE IF ~s.ok THEN Fail(s.error)
        ELSE [Fail(OK) EXCEPT !.courses = [courses EXCEPT ![pk] = s.row]]

\* CourseViewSet.destroy(): DELETE /courses/{pk}.
Course_destroy(user, pk) ==
    IF ~IsAuthenticated(user) THEN Fail(Unauthorized)
    ELSE IF ~IsAdminOrReadOnly_write(user) THEN Fail(PermissionDenied)
    ELSE IF pk \notin DOMAIN courses THEN Fail(NotFound)
    ELSE CascadeCourses(Response(204, "none"), {pk})

\* Mutant: a student sees the active contents of every course they have an
\* enrollment in, whatever its status.
Content_get_queryset_anyStatus(user) ==
    IF role(user) = "admin" THEN DOMAIN contents
    ELSE {c \in DOMAIN contents :
            /\ contents[c].is_active
            /\ \E e \in DOMAIN enrollments :
                   /\ enrollments[e].course = contents[c].course
                   /\ enrollments[e].student = user}

\* CourseContentViewSet.get_queryset: an admin sees every content; the second
\* test of the admin role (line 236) is never reached; anyone else sees the
\* active contents of the courses they hold an approved enrollment in.
Content_get_queryset(user) ==
    IF role(user) = "admin" THEN DOMAIN contents
    ELSE IF role(user) = "admin"
    THEN {c \in DOMAIN contents : courses[contents[c].course].instructor = user}
    ELSE {c \in DOMAIN contents :
            /\ contents[c].is_active
            /\ \E e \in DOMAIN enrollments :
                   /\ enrollments[e].course = contents[c].course
                   /\ enrollments[e].student = user
                   /\ enrollments[e].status = "approved"}

\* CourseContentViewSet.create(): POST /contents; permission_classes =
\* [IsAuthenticated].
Content_create(user, data) ==
    LET s == CourseContentSerializer(data, 0, FALSE)
    IN  IF ~IsAuthenticated(user) THEN Fail(Unauthorized)
        ELSE IF ~s.ok THEN Fail(s.error)
        ELSE [Fail(Response(201, "none")) EXCEPT
                 !.contents = Insert(contents, seq.content, s.row)]

\* CourseContentViewSet.update() and partial_update().
Content_update(user, pk, data, partial) ==
    LET s == CourseContentSerializer(data, pk, partial)
    IN  IF ~IsAuthenticated(user) THEN Fail(Unauthorized)
        ELSE IF pk \notin Content_get_queryset(user) THEN Fail(NotFound)
        ELSE IF ~s.ok THEN Fail(s.error)
        ELSE [Fail(OK) EXCEPT !.contents = [contents EXCEPT ![pk] = s.row]]

\* CourseContentViewSet.destroy(): DELETE /contents/{pk}, cascading to the
\* progress rows of the content.
Content_destroy(user, pk) ==
    IF ~IsAuthenticated(user) THEN Fail(Unauthorized)
    ELSE IF pk \notin Content_get_queryset(user) THEN Fail(NotFound)
    ELSE [Fail(Response(204, "none")) EXCEPT
             !.contents = Delete(contents, {pk}),
             !.progress = Delete(progress,
                 {p \in DOMAIN progress : progress[p].content = pk})]

(***************************************************************************)
(* views.py: AuthViewSet.register, with UserRegistrationSerializer.        *)
(* A text is a sequence of characters; " " is white space.                 *)
(***************************************************************************)
\* settings.ADMIN_REGISTRATION_SECRET, as a text of one character.
ADMIN_REGISTRATION_SECRET == <<"k">>

\* password = CharField(min_length=6).
MinPasswordLength == 6

Chars == {"k", "x", " "}

RECURSIVE lstrip(_)
lstrip(s) == IF s # <<>> /\ Head(s) = " " THEN lstrip(Tail(s)) ELSE s

RECURSIVE rstrip(_)
rstrip(s) ==
    IF s # <<>> /\ s[Len(s)] = " " THEN rstrip(SubSeq(s, 1, Len(s) - 1)) ELSE s

\* str.strip(), which CharField applies to its input (trim_whitespace).
strip(s) == rstrip(lstrip(s))

\* A User row.  first_name stands for the profile fields a user may edit
\* (first_name, last_name, date_of_birth, phone_number, address); password
\* is the password set, a text named by its length.
User(email, r) == [email |-> email, role |-> r, first_name |-> 0, password |-> 6]

\* Mutant: the role comes from the request body when the body gives one.
RegisteredRole_fromBody(is_admin, data) ==
    IF data.role # "absent" THEN data.role
    ELSE IF is_admin THEN "admin" ELSE "student"

\* UserRegistrationSerializer.create(), line 40: role is read only, so the
\* body's role never reaches validated_data; the role is set from is_admin.
RegisteredRole(is_admin, data) == IF is_admin THEN "admin" ELSE "student"

\* UserRegistrationSerializer.is_valid(): the fields (email unique, password
\* of 6 characters or more, admin_secret optional, blank allowed, trimmed),
\* then validate().  data.has_secret says whether the body has the key
\* admin_secret.
UserRegistrationSerializer(data) ==
    LET admin_secret == strip(data.admin_secret)
        fieldsOk ==
            /\ \A u \in DOMAIN users : users[u].email # data.email
            /\ data.password >= MinPasswordLength
        given == data.has_secret /\ admin_secret # <<>>
        is_admin == given /\ admin_secret = ADMIN_REGISTRATION_SECRET
    IN  [ok |-> fieldsOk /\ (given => is_admin),
         is_admin |-> is_admin]

\* register(): POST /auth/register.
register(data) ==
    LET s == UserRegistrationSerializer(data)
    IN  IF ~s.ok THEN Fail(Invalid)
        ELSE IF /\ data.has_secret
                /\ data.admin_secret # <<>>
                /\ data.admin_secret # ADMIN_REGISTRATION_SECRET
        THEN Fail(Response(400, "invalid_secret"))
        ELSE [Fail(Response(201, "none")) EXCEPT
                 !.users = Insert(users, seq.user,
                                  [User(data.email, RegisteredRole(s.is_admin, data))
                                      EXCEPT !.password = data.password])]

\* A 200 response that carries rows: data maps each primary key listed to
\* the number of times the listing holds it.
Listing(data) == [status |-> 200, error |-> "none", data |-> data]

\* CourseContentViewSet.list(): GET /contents, the rows of get_queryset().
\* The filter of a non-admin joins the enrollments of the content's course,
\* so a content comes once per enrollment that matches.
Content_list(user) ==
    IF ~IsAuthenticated(user) THEN Fail(Unauthorized)
    ELSE [Fail(OK) EXCEPT !.resp =
            Listing([c \in Content_get_queryset(user) |->
                        IF role(user) = "admin" THEN 1
                        ELSE Cardinality({e \in DOMAIN enrollments :
                                 /\ enrollments[e].course = contents[c].course
                                 /\ enrollments[e].student = user
                                 /\ enrollments[e].status = "approved"})])]

\* The least primary key of a set of rows: QuerySet.first() of a queryset
\* that has no ordering orders by primary key.
first(ids) == CHOOSE i \in ids : \A j \in ids : i <= j

\* Python's completed_contents / total_contents * 100, a float, kept as the
\* exact fraction num / den.
Percent(completed_contents, total_contents) ==
    [num |-> completed_contents * 100, den |-> total_contents]

\* Mutant: every content of the course counts, active or not.
ActiveContents_all(course_id) ==
    {c \in DOMAIN contents : contents[c].course = course_id}

\* course_progress(), line 308: the active contents of the course.
ActiveContents(course_id) ==
    {c \in DOMAIN contents : contents[c].course = course_id /\ contents[c].is_active}

\* course_progress(): GET /progress/course_progress?course_id=&student_id=.
\* A query parameter is Absent or a string; an id that is no number makes
\* the filter raise ValueError, which nothing catches.
StudentProgress_course_progress(user, course_id, student_id) ==
    LET byStudent == student_id # Absent /\ role(user) = "admin"
        student == IF byStudent THEN student_id.v ELSE user
        found == {e \in DOMAIN enrollments :
                    /\ enrollments[e].course = course_id.v
                    /\ enrollments[e].student = student}
        enrollment == first(found)
        rows == {p \in DOMAIN progress : progress[p].enrollment = enrollment}
        total_contents == Cardinality(ActiveContents(course_id.v))
        completed_contents == Cardinality({p \in rows : progress[p].is_completed})
    IN  IF course_id = Absent THEN Fail(Response(400, "course_id_required"))
        ELSE IF course_id.k = "junk" \/ (byStudent /\ student_id.k = "junk")
        THEN Fail(Response(500, "server_error"))
        ELSE IF found = {} THEN Fail(Response(404, "no_enrollment"))
        ELSE [Fail(OK) EXCEPT !.resp =
                Listing([total_contents |-> total_contents,
                         completed_contents |-> completed_contents,
                         completion_percentage |->
                             IF total_contents > 0
                             THEN Percent(completed_contents, total_contents)
                             ELSE [num |-> 0, den |-> 1],
                         detailed_progress |-> rows])]

(***************************************************************************)
(* views.py: AuthViewSet.login and UserViewSet.                            *)
(***************************************************************************)
\* login(): POST /auth/login.  UserLoginSerializer.validate() authenticates
\* the email and password; nothing is written.
login(data) ==
    IF \E u \in DOMAIN users :
           users[u].email = data.email /\ users[u].password = data.password
    THEN Fail(OK)
    ELSE Fail(Invalid)

\* UserViewSet.get_queryset.
User_get_queryset(user) == IF role(user) = "admin" THEN DOMAIN users ELSE {user}

\* IsOwnerOrAdmin.has_object_permission on a User row, which has none of
\* the attributes student, user, enrollment: only the admin test can pass.
IsOwnerOrAdmin_user(user, row) == role(user) = "admin"

\* get_object() of retrieve, update and partial_update, whose permissions
\* are [IsOwnerOrAdmin()]: has_permission lets every request in, and
\* get_queryset reads request.user.role, which an anonymous user lacks.
User_get_object(user, pk) ==
    IF ~IsAuthenticated(user) THEN Response(500, "server_error")
    ELSE IF pk \notin User_get_queryset(user) THEN NotFound
    ELSE IF ~IsOwnerOrAdmin_user(user, users[pk]) THEN PermissionDenied
    ELSE OK

\* The permissions [IsAdmin()] of list, create and destroy.
User_admin_only(user) ==
    IF ~IsAuthenticated(user) THEN Unauthorized
    ELSE IF ~IsAdmin(user) THEN PermissionDenied
    ELSE OK

\* Mutant: role is a writable field of UserSerializer.
UserSerializer_roleWritable(data, old) ==
    [old EXCEPT !.first_name = IF data.first_name = Absent THEN @ ELSE data.first_name.v,
                !.role = IF data.role = "absent" THEN @ ELSE data.role]

\* UserSerializer(instance, data).save(): id, email and role are read only,
\* the other fields are optional.
UserSerializer(data, old) ==
    [old EXCEPT !.first_name = IF data.first_name = Absent THEN @ ELSE data.first_name.v]

\* retrieve(): GET /users/{pk}.
User_retrieve(user, pk) ==
    LET o == User_get_object(user, pk)
    IN  IF o # OK THEN Fail(o) ELSE [Fail(OK) EXCEPT !.resp = Listing(pk :> 1)]

\* list(): GET /users.
User_list(user) ==
    LET o == User_admin_only(user)
    IN  IF o # OK THEN Fail(o)
        ELSE [Fail(OK) EXCEPT !.resp = Listing([u \in User_get_queryset(user) |-> 1])]

\* create(): POST /users.  email is read only, so the row is created with
\* the empty email (0), the default role and no usable password (0); a
\* second such row breaks the unique email and raises IntegrityError.
User_create(user, data) ==
    LET o == User_admin_only(user)
        blank == [User(0, "student") EXCEPT !.password = 0]
    IN  IF o # OK THEN Fail(o)
        ELSE IF \E u \in DOMAIN users : users[u].email = 0
        THEN Fail(Response(500, "server_error"))
        ELSE [Fail(Response(201, "none")) EXCEPT
                 !.users = Insert(users, seq.user, UserSerializer(data, blank))]

\* update() and partial_update(): PUT and PATCH /users/{pk}.
User_update(user, pk, data) ==
    LET o == User_get_object(user, pk)
    IN  IF o # OK THEN Fail(o)
        ELSE [Fail(OK) EXCEPT !.users = [users EXCEPT ![pk] = UserSerializer(data, @)]]

\* destroy(): DELETE /users/{pk}, cascading to the courses the user
\* instructs and the enrollments the user holds.
User_destroy(user, pk) ==
    LET o == User_admin_only(user)
        c == CascadeCourses(Response(204, "none"),
                            {i \in DOMAIN courses : courses[i].instructor = pk})
        es == {e \in DOMAIN c.enrollments : c.enrollments[e].student = pk}
    IN  IF o # OK THEN Fail(o)
        ELSE IF pk \notin DOMAIN users THEN Fail(NotFound)
        ELSE [c EXCEPT !.users = Delete(users, {pk}),
                       !.enrollments = Delete(c.enrollments, es),
                       !.progress = Delete(c.progress,
                           {p \in DOMAIN c.progress : c.progress[p].enrollment \in es})]

(***************************************************************************)
(* views.py: the read operations of CourseViewSet, EnrollmentViewSet and   *)
(* StudentProgressViewSet.                                                 *)
(***************************************************************************)
\* IsAdminOrReadOnly.has_permission for a safe method (GET): everyone,
\* with or without a user.
IsAdminOrReadOnly_read(user) == TRUE

\* CourseViewSet.list(): GET /courses.
Course_list(user) ==
    IF ~IsAdminOrReadOnly_read(user) THEN Fail(Unauthorized)
    ELSE [Fail(OK) EXCEPT !.resp = Listing([c \in DOMAIN courses |-> 1])]

\* CourseViewSet.retrieve(): GET /courses/{pk}.
Course_retrieve(user, pk) ==
    IF ~IsAdminOrReadOnly_read(user) THEN Fail(Unauthorized)
    ELSE IF pk \notin DOMAIN courses THEN Fail(NotFound)
    ELSE [Fail(OK) EXCEPT !.resp = Listing(pk :> 1)]

\* CourseViewSet.enrollments(): GET /courses/{pk}/enrollments, the
\* enrollments of the course.
Course_enrollments(user, pk) ==
    IF ~IsAdminOrReadOnly_read(user) THEN Fail(Unauthorized)
    ELSE IF pk \notin DOMAIN courses THEN Fail(NotFound)
    ELSE [Fail(OK) EXCEPT !.resp =
            Listing([e \in {i \in DOMAIN enrollments : enrollments[i].course = pk} |-> 1])]

\* EnrollmentViewSet.list(): GET /enrollments.
Enrollment_list(user) ==
    [Fail(OK) EXCEPT !.resp = Listing([e \in Enrollment_get_queryset(user) |-> 1])]

\* StudentProgressViewSet.list(): GET /progress.
Progress_list(user) ==
    [Fail(OK) EXCEPT !.resp = Listing([p \in Progress_get_queryset(user) |-> 1])]

(***************************************************************************)
(* The two halves of a create: the checks (permissions, the handler's      *)
(* tests, is_valid()) and serializer.save(), the INSERT.  No transaction   *)
(* spans them, so another worker's INSERT can fall in between; the unique  *)
(* index of unique_together then raises IntegrityError, which no handler   *)
(* and no DRF exception handler catches.                                   *)
(***************************************************************************)
IntegrityError == Response(500, "integrity_error")

\* serializer.save() of an Enrollment row.
Enrollment_save(row) ==
    IF \E e \in DOMAIN enrollments :
           enrollments[e].student = row.student /\ enrollments[e].course = row.course
    THEN Fail(IntegrityError)
    ELSE Outcome(Response(201, "none"), Insert(enrollments, seq.enrollment, row), progress)

\* serializer.save() of a StudentProgress row.
Progress_save(row) ==
    IF \E p \in DOMAIN progress :
           progress[p].enrollment = row.enrollment /\ progress[p].content = row.content
    THEN Fail(IntegrityError)
    ELSE Outcome(Response(201, "none"), enrollments, Insert(progress, seq.progress, row))

(***************************************************************************)
(* One request, handled: the permission classes of the view set            *)
(* ([IsAuthenticated, IsOwnerOrAdmin], views.py line 96), then the handler.*)
(***************************************************************************)
Authenticated(user, outcome) ==
    IF ~IsAuthenticated(user) THEN Fail(Unauthorized) ELSE outcome

Handle(r, o) ==
    /\ req' = r
    /\ resp' = o.resp
    /\ users' = o.users
    /\ courses' = o.courses
    /\ contents' = o.contents
    /\ enrollments' = o.enrollments
    /\ progress' = o.progress
    /\ inflight' = inflight

PostEnrollment(user, data) ==
    LET o == Authenticated(user, Enrollment_create(user, data))
    IN  /\ o.resp.status = 201 => seq.enrollment <= MaxEnrollments
        /\ seq' = IF o.resp.status = 201
                  THEN [seq EXCEPT !.enrollment = @ + 1] ELSE seq
        /\ UNCHANGED recorded
        /\ Handle(Request("enrollment_create", user, 0, data), o)

PutEnrollment(user, pk, data) ==
    /\ UNCHANGED <<seq, recorded>>
    /\ Handle(Request("enrollment_update", user, pk, data),
              Authenticated(user, Enrollment_update(user, pk, data, FALSE)))

PatchEnrollment(user, pk, data) ==
    /\ UNCHANGED <<seq, recorded>>
    /\ Handle(Request("enrollment_partial_update", user, pk, data),
              Authenticated(user, Enrollment_update(user, pk, data, TRUE)))

DeleteEnrollment(user, pk) ==
    /\ UNCHANGED <<seq, recorded>>
    /\ Handle(Request("enrollment_destroy", user, pk, NoData),
              Authenticated(user, Enrollment_destroy(user, pk)))

PutUpdateProgress(user, pk, data) ==
    /\ UNCHANGED <<seq, recorded>>
    /\ Handle(Request("update_progress", user, pk, data),
              Authenticated(user, Enrollment_update_progress(user, pk, data)))

PostApprove(user, pk) ==
    /\ UNCHANGED <<seq, recorded>>
    /\ Handle(Request("approve", user, pk, NoData),
              Authenticated(user, Enrollment_approve(user, pk)))

PostReject(user, pk) ==
    /\ UNCHANGED <<seq, recorded>>
    /\ Handle(Request("reject", user, pk, NoData),
              Authenticated(user, Enrollment_reject(user, pk)))

PostProgress(user, data) ==
    LET o == Authenticated(user, Progress_create(user, data))
    IN  /\ o.resp.status = 201 => seq.progress <= MaxProgress
        /\ seq' = IF o.resp.status = 201 THEN [seq EXCEPT !.progress = @ + 1] ELSE seq
        /\ recorded' = IF o.resp.status = 201
                       THEN recorded \cup {<<data.enrollment.v, data.content.v>>}
                       ELSE recorded
        /\ Handle(Request("progress_create", user, 0, data), o)

PutProgress(user, pk, data) ==
    /\ UNCHANGED <<seq, recorded>>
    /\ Handle(Request("progress_update", user, pk, data),
              Authenticated(user, Progress_update(user, pk, data, FALSE)))

PatchProgress(user, pk, data) ==
    /\ UNCHANGED <<seq, recorded>>
    /\ Handle(Request("progress_partial_update", user, pk, data),
              Authenticated(user, Progress_update(user, pk, data, TRUE)))

DeleteProgress(user, pk) ==
    /\ UNCHANGED <<seq, recorded>>
    /\ Handle(Request("progress_destroy", user, pk, NoData),
              Authenticated(user, Progress_destroy(user, pk)))

PostCourse(user, data) ==
    LET o == Course_create(user, data)
    IN  /\ o.resp.status = 201 => seq.course <= MaxCourses
        /\ seq' = IF o.resp.status = 201 THEN [seq EXCEPT !.course = @ + 1] ELSE seq
        /\ UNCHANGED recorded
        /\ Handle(Request("course_create", user, 0, data), o)

PutCourse(user, pk, data) ==
    /\ UNCHANGED <<seq, recorded>>
    /\ Handle(Request("course_update", user, pk, data),
              Course_update(user, pk, data, FALSE))

PatchCourse(user, pk, data) ==
    /\ UNCHANGED <<seq, recorded>>
    /\ Handle(Request("course_partial_update", user, pk, data),
              Course_update(user, pk, data, TRUE))

DeleteCourse(user, pk) ==
    /\ UNCHANGED <<seq, recorded>>
    /\ Handle(Request("course_destroy", user, pk, NoData), Course_destroy(user, pk))

PostContent(user, data) ==
    LET o == Content_create(user, data)
    IN  /\ o.resp.status = 201 => seq.content <= MaxContents
        /\ seq' = IF o.resp.status = 201 THEN [seq EXCEPT !.content = @ + 1] ELSE seq
        /\ UNCHANGED recorded
        /\ Handle(Request("content_create", user, 0, data), o)

PutContent(user, pk, data) ==
    /\ UNCHANGED <<seq, recorded>>
    /\ Handle(Request("content_update", user, pk, data),
              Content_update(user, pk, data, FALSE))

PatchContent(user, pk, data) ==
    /\ UNCHANGED <<seq, recorded>>
    /\ Handle(Request("content_partial_update", user, pk, data),
              Content_update(user, pk, data, TRUE))

DeleteContent(user, pk) ==
    /\ UNCHANGED <<seq, recorded>>
    /\ Handle(Request("content_destroy", user, pk, NoData), Content_destroy(user, pk))

PostRegister(data) ==
    LET o == register(data)
    IN  /\ o.resp.status = 201 => seq.user <= MaxUsers
        /\ seq' = IF o.resp.status = 201 THEN [seq EXCEPT !.user = @ + 1] ELSE seq
        /\ UNCHANGED recorded
        /\ Handle(Request("register", 0, 0, data), o)

GetContents(user) ==
    /\ UNCHANGED <<seq, recorded>>
    /\ Handle(Request("content_list", user, 0, NoData), Content_list(user))

GetCourseProgress(user, course_id, student_id) ==
    /\ UNCHANGED <<seq, recorded>>
    /\ Handle(Request("course_progress", user, 0,
                      [course_id |-> course_id, student_id |-> student_id]),
              Authenticated(user, StudentProgress_course_progress(user, course_id, student_id)))

PostLogin(data) ==
    /\ UNCHANGED <<seq, recorded>>
    /\ Handle(Request("login", 0, 0, data), login(data))

GetUsers(user) ==
    /\ UNCHANGED <<seq, recorded>>
    /\ Handle(Request("user_list", user, 0, NoData), User_list(user))

GetUser(user, pk) ==
    /\ UNCHANGED <<seq, recorded>>
    /\ Handle(Request("user_retrieve", user, pk, NoData), User_retrieve(user, pk))

PostUser(user, data) ==
    LET o == User_create(user, data)
    IN  /\ o.resp.status = 201 => seq.user <= MaxUsers
        /\ seq' = IF o.resp.status = 201 THEN [seq EXCEPT !.user = @ + 1] ELSE seq
        /\ UNCHANGED recorded
        /\ Handle(Request("user_create", user, 0, data), o)

PutUser(user, pk, data) ==
    /\ UNCHANGED <<seq, recorded>>
    /\ Handle(Request("user_update", user, pk, data), User_update(user, pk, data))

PatchUser(user, pk, data) ==
    /\ UNCHANGED <<seq, recorded>>
    /\ Handle(Request("user_partial_update", user, pk, data), User_update(user, pk, data))

DeleteUser(user, pk) ==
    /\ UNCHANGED <<seq, recorded>>
    /\ Handle(Request("user_destroy", user, pk, NoData), User_destroy(user, pk))

GetCourses(user) ==
    /\ UNCHANGED <<seq, recorded>>
    /\ Handle(Request("course_list", user, 0, NoData), Course_list(user))

GetCourse(user, pk) ==
    /\ UNCHANGED <<seq, recorded>>
    /\ Handle(Request("course_retrieve", user, pk, NoData), Course_retrieve(user, pk))

GetCourseEnrollments(user, pk) ==
    /\ UNCHANGED <<seq, recorded>>
    /\ Handle(Request("course_enrollments", user, pk, NoData), Course_enrollments(user, pk))

GetEnrollments(user) ==
    /\ UNCHANGED <<seq, recorded>>
    /\ Handle(Request("enrollment_list", user, 0, NoData),
              Authenticated(user, Enrollment_list(user)))

GetProgress(user) ==
    /\ UNCHANGED <<seq, recorded>>
    /\ Handle(Request("progress_list", user, 0, NoData),
              Authenticated(user, Progress_list(user)))

\* A worker answers a request without touching a table.
Answer(r, response) ==
    /\ req' = r
    /\ resp' = response
    /\ UNCHANGED <<users, courses, contents, enrollments, progress, seq, recorded, inflight>>

\* A worker has run the checks of a create and is about to save the row.
Park(w, op, user, data, row) ==
    /\ inflight' = [inflight EXCEPT ![w] =
                       [op |-> op, user |-> user, data |-> data, row |-> row]]
    /\ UNCHANGED <<users, courses, contents, enrollments, progress, seq, recorded, req, resp>>

\* POST /enrollments up to serializer.save(): every check of create().
BeginPostEnrollment(w, user, data) ==
    LET o == Authenticated(user, Enrollment_create(user, data))
    IN  /\ inflight[w] = Idle
        /\ IF o.resp.status = 201
           THEN Park(w, "enrollment_create", user, data,
                     EnrollmentSerializer(data, 0, FALSE).row)
           ELSE Answer(Request("enrollment_create", user, 0, data), o.resp)

\* POST /enrollments from serializer.save() on.
SavePostEnrollment(w) ==
    LET f == inflight[w]
        o == Enrollment_save(f.row)
    IN  /\ f.op = "enrollment_create"
        /\ o.resp.status = 201 => seq.enrollment <= MaxEnrollments
        /\ req' = Request("enrollment_create", f.user, 0, f.data)
        /\ resp' = o.resp
        /\ enrollments' = o.enrollments
        /\ seq' = IF o.resp.status = 201 THEN [seq EXCEPT !.enrollment = @ + 1] ELSE seq
        /\ inflight' = [inflight EXCEPT ![w] = Idle]
        /\ UNCHANGED <<users, courses, contents, progress, recorded>>

\* POST /progress up to serializer.save().
BeginPostProgress(w, user, data) ==
    LET o == Authenticated(user, Progress_create(user, data))
    IN  /\ inflight[w] = Idle
        /\ IF o.resp.status = 201
           THEN Park(w, "progress_create", user, data,
                     StudentProgressSerializer(data, 0, FALSE).row)
           ELSE Answer(Request("progress_create", user, 0, data), o.resp)

\* POST /progress from serializer.save() on.
SavePostProgress(w) ==
    LET f == inflight[w]
        o == Progress_save(f.row)
    IN  /\ f.op = "progress_create"
        /\ o.resp.status = 201 => seq.progress <= MaxProgress
        /\ req' = Request("progress_create", f.user, 0, f.data)
        /\ resp' = o.resp
        /\ progress' = o.progress
        /\ seq' = IF o.resp.status = 201 THEN [seq EXCEPT !.progress = @ + 1] ELSE seq
        /\ recorded' = IF o.resp.status = 201
                       THEN recorded \cup {<<f.row.enrollment, f.row.content>>}
                       ELSE recorded
        /\ inflight' = [inflight EXCEPT ![w] = Idle]
        /\ UNCHANGED <<users, courses, contents, enrollments>>

(***************************************************************************)
(* Spec: the enrollment lifecycle.  The store holds what registration and  *)
(* an admin's POST /courses leave: one admin (user 1) who instructs        *)
(* course 1, and two students (users 2 and 3).                             *)
(***************************************************************************)
SeedUsers == (1 :> User(1, "admin")) @@ (2 :> User(2, "student")) @@ (3 :> User(3, "student"))

SeedCourses == (1 :> [instructor |-> 1, title |-> 0, is_active |-> TRUE])

SeedSeq == [user |-> 4, course |-> 2, content |-> 1, enrollment |-> 1, progress |-> 1]

Callers == DOMAIN SeedUsers

EnrollmentPks == 1 .. MaxEnrollments

\* Bodies of POST /enrollments: who, which course, and a status the client
\* asks for.
PostBodies ==
    [student : {Absent, Num(1), Num(2), Num(3), Str(2)},
     course : {Absent, Num(1)},
     status : {"absent", "approved"},
     completion_percentage : {Absent},
     grade : {Absent}]

\* Bodies of PUT and PATCH /enrollments/{pk}.
PutBodies ==
    [student : {Absent, Num(2), Num(3)},
     course : {Absent, Num(1)},
     status : {"absent", "approved"},
     completion_percentage : {Absent},
     grade : {Absent}]

\* Bodies of PUT /enrollments/{pk}/update_progress in this specification: no
\* value, or one out of range (SpecGrades draws the values).
LifecycleProgressBodies ==
    [completion_percentage : {Absent, Num(101)}, grade : {Absent}]

Init ==
    /\ users = SeedUsers
    /\ courses = SeedCourses
    /\ contents = Empty
    /\ enrollments = Empty
    /\ progress = Empty
    /\ seq = SeedSeq
    /\ req = NoRequest
    /\ resp = OK
    /\ recorded = {}
    /\ inflight = NoneInFlight

Next ==
    \/ \E user \in Callers, data \in PostBodies : PostEnrollment(user, data)
    \/ \E user \in Callers, pk \in EnrollmentPks, data \in PutBodies :
            PutEnrollment(user, pk, data)
    \/ \E user \in Callers, pk \in EnrollmentPks, data \in PutBodies :
            PatchEnrollment(user, pk, data)
    \/ \E user \in Callers, pk \in EnrollmentPks : DeleteEnrollment(user, pk)
    \/ \E user \in Callers, pk \in EnrollmentPks, data \in LifecycleProgressBodies :
            PutUpdateProgress(user, pk, data)
    \/ \E user \in Callers, pk \in EnrollmentPks : PostApprove(user, pk)
    \/ \E user \in Callers, pk \in EnrollmentPks : PostReject(user, pk)

Spec == Init /\ [][Next]_vars

(***************************************************************************)
(* SpecGrades: completion and grade.  Students enrol themselves (or the    *)
(* admin enrols them) and update_progress is called with every             *)
(* combination of a missing, non-numeric, in-range and out-of-range value. *)
(***************************************************************************)
GradesPostBodies ==
    [student : {Num(2), Num(3)},
     course : {Num(1)},
     status : {"absent"},
     completion_percentage : {Absent},
     grade : {Absent}]

Percentages == {Absent, Junk, Num(-1), Str(100), Num(101)}

ProgressBodies == [completion_percentage : Percentages, grade : Percentages]

NextGrades ==
    \/ \E user \in Callers, data \in GradesPostBodies : PostEnrollment(user, data)
    \/ \E user \in Callers, pk \in EnrollmentPks, data \in ProgressBodies :
            PutUpdateProgress(user, pk, data)

SpecGrades == Init /\ [][NextGrades]_vars

(***************************************************************************)
(* SpecProgress: the progress ledger.  The store is the one of Init after  *)
(* the admin has added two contents to course 1 and both students have     *)
(* asked to be enrolled in it (enrollments 1 and 2, pending).              *)
(***************************************************************************)
SeedContents ==
    (1 :> [course |-> 1, title |-> 0, is_active |-> TRUE]) @@
    (2 :> [course |-> 1, title |-> 0, is_active |-> TRUE])

SeedEnrollments ==
    (1 :> [EnrollmentDefaults EXCEPT !.student = 2, !.course = 1]) @@
    (2 :> [EnrollmentDefaults EXCEPT !.student = 3, !.course = 1])

InitProgress ==
    /\ users = SeedUsers
    /\ courses = SeedCourses
    /\ contents = SeedContents
    /\ enrollments = SeedEnrollments
    /\ progress = Empty
    /\ seq = [SeedSeq EXCEPT !.content = 3, !.enrollment = 3]
    /\ req = NoRequest
    /\ resp = OK
    /\ recorded = {}
    /\ inflight = NoneInFlight

ProgressPks == 1 .. MaxProgress

ProgressPostBodies ==
    [enrollment : {Num(1), Num(2)}, content : {Num(1), Num(2)}, is_completed : {"true"}]

ProgressPatchBodies ==
    [enrollment : {Absent}, content : {Num(2)}, is_completed : {"absent"}]

NextProgress ==
    \/ \E user \in Callers, data \in ProgressPostBodies : PostProgress(user, data)
    \/ \E user \in Callers, pk \in ProgressPks, data \in ProgressPostBodies :
            PutProgress(user, pk, data)
    \/ \E user \in Callers, pk \in ProgressPks, data \in ProgressPatchBodies :
            PatchProgress(user, pk, data)
    \/ \E user \in Callers, pk \in ProgressPks : DeleteProgress(user, pk)
    \/ \E user \in Callers, pk \in DOMAIN SeedEnrollments : PostApprove(user, pk)
    \/ \E user \in Callers, pk \in DOMAIN SeedEnrollments : PostReject(user, pk)

SpecProgress == InitProgress /\ [][NextProgress]_vars

(***************************************************************************)
(* SpecCatalog: courses and contents.  The store is the one of Init after  *)
(* student 2 has enrolled in course 1 and the admin has approved it.       *)
(***************************************************************************)
InitCatalog ==
    /\ users = SeedUsers
    /\ courses = SeedCourses
    /\ contents = Empty
    /\ enrollments = (1 :> [EnrollmentDefaults EXCEPT
                                !.student = 2, !.course = 1, !.status = "approved"])
    /\ progress = Empty
    /\ seq = [SeedSeq EXCEPT !.enrollment = 2]
    /\ req = NoRequest
    /\ resp = OK
    /\ recorded = {}
    /\ inflight = NoneInFlight

CoursePks == 1 .. MaxCourses

ContentPks == 1 .. MaxContents

CourseBodies ==
    [instructor : {Absent, Num(1), Num(2)}, title : {Num(1)}, is_active : {"absent", "false"}]

ContentBodies ==
    [course : {Absent, Num(1)}, title : {Num(1)}, is_active : {"absent", "false"}]

NextCatalog ==
    \/ \E user \in Callers, data \in CourseBodies : PostCourse(user, data)
    \/ \E user \in Callers, pk \in CoursePks, data \in CourseBodies :
            PutCourse(user, pk, data)
    \/ \E user \in Callers, pk \in CoursePks, data \in CourseBodies :
            PatchCourse(user, pk, data)
    \/ \E user \in Callers, pk \in CoursePks : DeleteCourse(user, pk)
    \/ \E user \in Callers, data \in ContentBodies : PostContent(user, data)
    \/ \E user \in Callers, pk \in ContentPks, data \in ContentBodies :
            PutContent(user, pk, data)
    \/ \E user \in Callers, pk \in ContentPks, data \in ContentBodies :
            PatchContent(user, pk, data)
    \/ \E user \in Callers, pk \in ContentPks : DeleteContent(user, pk)

SpecCatalog == InitCatalog /\ [][NextCatalog]_vars

(***************************************************************************)
(* SpecAuth: registration, from the empty store.                           *)
(***************************************************************************)
\* Length of the longest admin_secret sent.
MaxSecretLen == 2

RECURSIVE Texts(_)
Texts(n) ==
    IF n = 0 THEN {<<>>}
    ELSE Texts(n - 1) \cup {Append(t, c) : t \in {x \in Texts(n - 1) : Len(x) = n - 1}, c \in Chars}

Emails == {1, 2}

RegisterBodies ==
    [email : Emails,
     password : {MinPasswordLength - 1, MinPasswordLength},
     has_secret : {TRUE},
     admin_secret : Texts(MaxSecretLen),
     role : {"absent", "admin", "student"}]
    \cup
    [email : Emails,
     password : {MinPasswordLength - 1, MinPasswordLength},
     has_secret : {FALSE},
     admin_secret : {<<>>},
     role : {"absent", "admin", "student"}]

InitAuth ==
    /\ users = Empty
    /\ courses = Empty
    /\ contents = Empty
    /\ enrollments = Empty
    /\ progress = Empty
    /\ seq = [user |-> 1, course |-> 1, content |-> 1, enrollment |-> 1, progress |-> 1]
    /\ req = NoRequest
    /\ resp = OK
    /\ recorded = {}
    /\ inflight = NoneInFlight

NextAuth == \E data \in RegisterBodies : PostRegister(data)

SpecAuth == InitAuth /\ [][NextAuth]_vars

(***************************************************************************)
(* SpecListing: what GET /contents shows.  The store is the one of         *)
(* InitProgress; enrollments are approved and rejected, contents switched  *)
(* on and off, and every user lists the contents.                          *)
(***************************************************************************)
ListingPatchBodies == [course : {Absent}, title : {Absent}, is_active : {"true", "false"}]

NextListing ==
    \/ \E user \in Callers, pk \in DOMAIN SeedEnrollments : PostApprove(user, pk)
    \/ \E user \in Callers, pk \in DOMAIN SeedEnrollments : PostReject(user, pk)
    \/ \E user \in Callers, pk \in DOMAIN SeedContents, data \in ListingPatchBodies :
            PatchContent(user, pk, data)
    \/ \E user \in Callers : GetContents(user)

SpecListing == InitProgress /\ [][NextListing]_vars

(***************************************************************************)
(* SpecReport: the progress report of a course.  The store is the one of   *)
(* Init after the admin has created a second course, given each course one *)
(* content, and approved student 2's enrollment in course 1.               *)
(***************************************************************************)
InitReport ==
    /\ users = SeedUsers
    /\ courses = SeedCourses @@ (2 :> [instructor |-> 1, title |-> 0, is_active |-> TRUE])
    /\ contents = (1 :> [course |-> 1, title |-> 0, is_active |-> TRUE]) @@
                  (2 :> [course |-> 2, title |-> 0, is_active |-> TRUE])
    /\ enrollments = (1 :> [EnrollmentDefaults EXCEPT
                                !.student = 2, !.course = 1, !.status = "approved"])
    /\ progress = Empty
    /\ seq = [SeedSeq EXCEPT !.course = 3, !.content = 3, !.enrollment = 2]
    /\ req = NoRequest
    /\ resp = OK
    /\ recorded = {}
    /\ inflight = NoneInFlight

ReportPostBodies ==
    [enrollment : {Num(1)}, content : {Num(1), Num(2)}, is_completed : {"true", "false"}]

ReportCallers == {1, 2}

CourseIds == {Absent, Junk, Str(1), Str(2)}

StudentIds == {Absent, Str(2), Str(3)}

NextReport ==
    \/ \E user \in ReportCallers, data \in ReportPostBodies : PostProgress(user, data)
    \/ \E pk \in 1 .. 2, data \in ListingPatchBodies : PatchContent(1, pk, data)
    \/ \E pk \in 1 .. 2 : DeleteContent(1, pk)
    \/ \E user \in ReportCallers, course_id \in CourseIds, student_id \in StudentIds :
            GetCourseProgress(user, course_id, student_id)

SpecReport == InitReport /\ [][NextReport]_vars

(***************************************************************************)
(* SpecUsers: the accounts.  The store holds the admin, who instructs      *)
(* course 1, and student 2, whose enrollment in course 1 is pending; users *)
(* register, log in and are listed, read, created, edited and deleted.     *)
(***************************************************************************)
InitUsers ==
    /\ users = (1 :> User(1, "admin")) @@ (2 :> User(2, "student"))
    /\ courses = SeedCourses
    /\ contents = Empty
    /\ enrollments = (1 :> [EnrollmentDefaults EXCEPT !.student = 2, !.course = 1])
    /\ progress = Empty
    /\ seq = [SeedSeq EXCEPT !.user = 3, !.enrollment = 2]
    /\ req = NoRequest
    /\ resp = OK
    /\ recorded = {}
    /\ inflight = NoneInFlight

UserPks == 1 .. MaxUsers

UserBodies == [first_name : {Absent, Num(1)}, role : {"absent", "admin", "student"}]

LoginBodies == [email : {1, 2}, password : {MinPasswordLength - 1, MinPasswordLength}]

\* Registrations of the email 3, with and without the admin secret.
UsersRegisterBodies ==
    [email : {3},
     password : {MinPasswordLength},
     has_secret : {TRUE},
     admin_secret : {<<>>, ADMIN_REGISTRATION_SECRET},
     role : {"absent", "admin"}]

NextUsers ==
    \/ \E data \in UsersRegisterBodies : PostRegister(data)
    \/ \E data \in LoginBodies : PostLogin(data)
    \/ \E user \in UserPks : GetUsers(user)
    \/ \E user \in UserPks, pk \in UserPks : GetUser(user, pk)
    \/ \E user \in UserPks, data \in UserBodies : PostUser(user, data)
    \/ \E user \in UserPks, pk \in UserPks, data \in UserBodies : PutUser(user, pk, data)
    \/ \E user \in UserPks, pk \in UserPks, data \in UserBodies : PatchUser(user, pk, data)
    \/ \E user \in UserPks, pk \in UserPks : DeleteUser(user, pk)
    \/ \E user \in UserPks, pk \in {1} : PostApprove(user, pk)
    \/ \E user \in UserPks, pk \in {1} : PostReject(user, pk)

SpecUsers == InitUsers /\ [][NextUsers]_vars

(***************************************************************************)
(* SpecAnonymous: requests without a bearer credential.  The store is the  *)
(* one of InitCatalog; every endpoint is called by the anonymous caller,   *)
(* and the admin adds and removes rows in between.                         *)
(***************************************************************************)
\* request.user of a request that carries no credential: no User row.
Anonymous == 0

Admin == 1

AnonymousEnrollmentBodies ==
    [student : {Num(3)}, course : {Num(1)}, status : {"absent"},
     completion_percentage : {Absent}, grade : {Absent}]

AnonymousProgressBodies ==
    [enrollment : {Num(1)}, content : {Num(1)}, is_completed : {"true"}]

AnonymousUserBodies == [first_name : {Num(1)}, role : {"admin"}]

AnonymousCatalogBodies == [course : {Num(1)}, title : {Num(1)}, is_active : {"absent"}]

AnonymousCourseBodies == [instructor : {Num(1)}, title : {Num(1)}, is_active : {"absent"}]

NextAnonymous ==
    \/ \E user \in {Anonymous, Admin} : GetCourses(user)
    \/ \E user \in {Anonymous, Admin}, pk \in CoursePks : GetCourse(user, pk)
    \/ \E user \in {Anonymous, Admin}, pk \in CoursePks : GetCourseEnrollments(user, pk)
    \/ \E user \in {Anonymous, Admin}, data \in AnonymousCourseBodies : PostCourse(user, data)
    \/ \E pk \in CoursePks, data \in AnonymousCourseBodies : PutCourse(Anonymous, pk, data)
    \/ \E pk \in CoursePks, data \in AnonymousCourseBodies : PatchCourse(Anonymous, pk, data)
    \/ \E user \in {Anonymous, Admin}, pk \in CoursePks : DeleteCourse(user, pk)
    \/ \E user \in {Anonymous, Admin} : GetContents(user)
    \/ \E user \in {Anonymous, Admin}, data \in AnonymousCatalogBodies : PostContent(user, data)
    \/ \E pk \in ContentPks, data \in AnonymousCatalogBodies : PutContent(Anonymous, pk, data)
    \/ \E pk \in ContentPks, data \in AnonymousCatalogBodies : PatchContent(Anonymous, pk, data)
    \/ \E pk \in ContentPks : DeleteContent(Anonymous, pk)
    \/ \E user \in {Anonymous, Admin} : GetEnrollments(user)
    \/ \E user \in {Anonymous, Admin}, data \in AnonymousEnrollmentBodies :
            PostEnrollment(user, data)
    \/ \E pk \in EnrollmentPks, data \in AnonymousEnrollmentBodies :
            PutEnrollment(Anonymous, pk, data)
    \/ \E pk \in EnrollmentPks, data \in AnonymousEnrollmentBodies :
            PatchEnrollment(Anonymous, pk, data)
    \/ \E pk \in EnrollmentPks : DeleteEnrollment(Anonymous, pk)
    \/ \E pk \in EnrollmentPks, data \in LifecycleProgressBodies :
            PutUpdateProgress(Anonymous, pk, data)
    \/ \E pk \in EnrollmentPks : PostApprove(Anonymous, pk)
    \/ \E user \in {Anonymous, Admin}, pk \in EnrollmentPks : PostReject(user, pk)
    \/ \E user \in {Anonymous, Admin} : GetProgress(user)
    \/ \E user \in {Anonymous, Admin}, data \in AnonymousProgressBodies :
            PostProgress(user, data)
    \/ \E pk \in ProgressPks, data \in AnonymousProgressBodies : PutProgress(Anonymous, pk, data)
    \/ \E pk \in ProgressPks, data \in AnonymousProgressBodies :
            PatchProgress(Anonymous, pk, data)
    \/ \E pk \in ProgressPks : DeleteProgress(Anonymous, pk)
    \/ \E course_id \in {Absent, Str(1)} : GetCourseProgress(Anonymous, course_id, Absent)
    \/ GetUsers(Anonymous)
    \/ \E pk \in UserPks : GetUser(Anonymous, pk)
    \/ \E data \in AnonymousUserBodies : PostUser(Anonymous, data)
    \/ \E pk \in UserPks, data \in AnonymousUserBodies : PutUser(Anonymous, pk, data)
    \/ \E pk \in UserPks, data \in AnonymousUserBodies : PatchUser(Anonymous, pk, data)
    \/ \E pk \in UserPks : DeleteUser(Anonymous, pk)

SpecAnonymous == InitCatalog /\ [][NextAnonymous]_vars

(***************************************************************************)
(* SpecStatus: the status a client asks for.  From the store of Init,      *)
(* students enrol and every caller creates and patches enrollments with a  *)
(* status in the body: one of ENROLLMENT_STATUS, none, or no valid choice. *)
(***************************************************************************)
StatusInputs == ENROLLMENT_STATUS \cup {"absent", "unknown"}

StatusPostBodies ==
    [student : {Num(2), Num(3)},
     course : {Num(1)},
     status : {"absent", "completed", "unknown"},
     completion_percentage : {Absent},
     grade : {Absent}]

StatusPatchBodies ==
    [student : {Absent},
     course : {Absent},
     status : StatusInputs,
     completion_percentage : {Absent},
     grade : {Absent}]

NextStatus ==
    \/ \E user \in Callers, data \in StatusPostBodies : PostEnrollment(user, data)
    \/ \E user \in Callers, pk \in EnrollmentPks, data \in StatusPatchBodies :
            PatchEnrollment(user, pk, data)
    \/ \E user \in Callers, pk \in EnrollmentPks : PostApprove(user, pk)
    \/ \E user \in Callers, pk \in EnrollmentPks : PostReject(user, pk)

SpecStatus == Init /\ [][NextStatus]_vars

(***************************************************************************)
(* SpecRace: creates that overlap.  The store is the one of InitProgress   *)
(* with enrollment 1 approved and enrollment 2 not yet asked for; two      *)
(* workers serve POST /enrollments for student 3 and POST /progress for    *)
(* enrollment 1, each in two steps.                                        *)
(***************************************************************************)
InitRace ==
    /\ users = SeedUsers
    /\ courses = SeedCourses
    /\ contents = SeedContents
    /\ enrollments = (1 :> [EnrollmentDefaults EXCEPT
                                !.student = 2, !.course = 1, !.status = "approved"])
    /\ progress = Empty
    /\ seq = [SeedSeq EXCEPT !.content = 3, !.enrollment = 2]
    /\ req = NoRequest
    /\ resp = OK
    /\ recorded = {}
    /\ inflight = NoneInFlight

RaceEnrollmentBodies ==
    [student : {Num(3)}, course : {Num(1)}, status : {"absent"},
     completion_percentage : {Absent}, grade : {Absent}]

RaceProgressBodies ==
    [enrollment : {Num(1)}, content : {Num(1), Num(2)}, is_completed : {"true"}]

NextRace ==
    \/ \E w \in Workers, user \in {1, 3}, data \in RaceEnrollmentBodies :
            BeginPostEnrollment(w, user, data)
    \/ \E w \in Workers : SavePostEnrollment(w)
    \/ \E w \in Workers, user \in {1, 2}, data \in RaceProgressBodies :
            BeginPostProgress(w, user, data)
    \/ \E w \in Workers : SavePostProgress(w)

SpecRace == InitRace /\ [][NextRace]_vars

(***************************************************************************)
(* Properties of the enrollment lifecycle (Spec).                          *)
(***************************************************************************)
\* The (student, course) pair a body names, when it names one.
NamesPair(data) == data.student.k \in {"num", "str"} /\ data.course.k \in {"num", "str"}

PairEnrolled(student, course) ==
    \E e \in DOMAIN enrollments :
        enrollments[e].student = student /\ enrollments[e].course = course

UniquePairs ==
    \A e1, e2 \in DOMAIN enrollments :
        (/\ enrollments[e1].student = enrollments[e2].student
         /\ enrollments[e1].course = enrollments[e2].course) => e1 = e2

\* The uniqueness violation ("Conflict"): HTTP 400 from the unique_together
\* validator or from the existence check of create().
Conflict(r) == r.status = 400 /\ r.error \in {"unique", "already_enrolled"}

C1_Create ==
    (/\ req'.op = "enrollment_create"
     /\ NamesPair(req'.data)
     /\ PairEnrolled(req'.data.student.v, req'.data.course.v))
    => /\ enrollments' = enrollments
       /\ resp'.status \in {400, 403}
       /\ MayEnroll(req'.user, req'.data) => Conflict(resp')

\* C1: in every reachable state there is at most one Enrollment per
\* (student, course) pair, and a POST /enrollments naming a pair that already
\* has an enrollment leaves the enrollments unchanged and fails, with the
\* uniqueness error (HTTP 400) whenever the caller may enrol that student
\* (an admin, or the student themself).
C1_AtMostOnePerPair == []UniquePairs /\ [][C1_Create]_vars

\* C1 witness: the student of an existing enrollment has just posted the same
\* pair again and got the uniqueness error.
C1_Witness ==
    /\ req.op = "enrollment_create"
    /\ Conflict(resp)
    /\ NamesPair(req.data)
    /\ req.user = req.data.student.v
    /\ PairEnrolled(req.data.student.v, req.data.course.v)

NonPending(table) == {e \in DOMAIN table : table[e].status # "pending"}

\* C2: a request of a student-role caller (who instructs no course) never
\* takes an enrollment out of pending and never creates one that is not
\* pending, so after requests of such callers only, all are pending.
C2_StudentsLeavePending ==
    [][(/\ req'.op # "none"
        /\ role(req'.user) = "student"
        /\ \A c \in DOMAIN courses : courses[c].instructor # req'.user)
       => NonPending(enrollments') \subseteq NonPending(enrollments)]_vars

\* C7: every successful POST /enrollments creates an Enrollment whose status
\* is pending, whatever the body carries.
C7_CreatedPending ==
    [][(req'.op = "enrollment_create" /\ resp'.status = 201)
       => /\ DOMAIN enrollments' = DOMAIN enrollments \cup {seq.enrollment}
          /\ enrollments'[seq.enrollment].status = "pending"]_vars

C8_Create ==
    LET user == req'.user
        data == req'.data
    IN  (req'.op = "enrollment_create" /\ role(user) # "admin")
        => /\ (data.student.k \in {"num", "str"} /\ data.student.v # user)
              => resp' = Response(403, "enroll_self") /\ enrollments' = enrollments
           /\ resp'.status = 201
              => /\ DOMAIN enrollments' = DOMAIN enrollments \cup {seq.enrollment}
                 /\ enrollments'[seq.enrollment].student = user

\* C8: a POST /enrollments by a non-admin caller that names a student other
\* than the caller fails with 403 and creates nothing; every enrollment a
\* non-admin caller creates has the caller as its student.
C8_EnrollOnlySelf == [][C8_Create]_vars

\* C8 witness: a student has just been refused enrolling another student.
C8_Witness ==
    /\ req.op = "enrollment_create"
    /\ role(req.user) = "student"
    /\ req.data.student.k \in {"num", "str"}
    /\ req.data.student.v \in StudentChoices \ {req.user}
    /\ resp = Response(403, "enroll_self")

\* C8 witness of the second half: a student has enrolled themself.
C8_WitnessSelf ==
    /\ req.op = "enrollment_create"
    /\ role(req.user) = "student"
    /\ resp.status = 201

StatusAction(status) == IF status = "approved" THEN "approve" ELSE "reject"

C9_Step ==
    \A user \in DOMAIN users, pk \in DOMAIN enrollments, status \in {"approved", "rejected"} :
        (req'.op = StatusAction(status) /\ req'.user = user /\ req'.pk = pk)
        => IF role(user) = "admin" \/ courses[enrollments[pk].course].instructor = user
           THEN /\ resp'.status = 200
                /\ enrollments' = [enrollments EXCEPT ![pk].status = status]
                /\ (Enrollment_set_status(user, pk, status).enrollments)' = enrollments'
           ELSE /\ resp'.status = 403
                /\ enrollments' = enrollments

\* C9: approve (reject) by an admin or the course's instructor sets the status
\* to approved (rejected) from any status, changes nothing else, and a second
\* application changes nothing more; by any other caller it fails with 403
\* and changes nothing.
C9_ApproveReject == [][C9_Step]_vars

\* C10: update_progress on an enrollment by a caller who is neither admin nor
\* its student fails with 403 and leaves the enrollments unchanged.
C10_OthersForbidden ==
    [][(/\ req'.op = "update_progress"
        /\ req'.pk \in DOMAIN enrollments
        /\ role(req'.user) # "admin"
        /\ enrollments[req'.pk].student # req'.user)
       => resp'.status = 403 /\ enrollments' = enrollments]_vars

(***************************************************************************)
(* Properties of update_progress (SpecGrades).                             *)
(***************************************************************************)
\* A supplied value that is a number outside [0, 100].
OutOfRange(x) == x.k \in {"num", "str"} /\ (x.v < 0 \/ x.v > 100)

ValidationError(r) ==
    /\ r.status = 400
    /\ r.error \in {"invalid_completion", "completion_range", "invalid_grade", "grade_range"}

C4_Step ==
    LET user == req'.user
        pk == req'.pk
        data == req'.data
    IN  (/\ req'.op = "update_progress"
         /\ OutOfRange(data.completion_percentage) \/ OutOfRange(data.grade))
        => /\ enrollments' = enrollments
           /\ (/\ pk \in DOMAIN enrollments
               /\ role(user) = "admin" \/ enrollments[pk].student = user)
              => ValidationError(resp')

UniqueProgress ==
    \A p1, p2 \in DOMAIN progress :
        (/\ progress[p1].enrollment = progress[p2].enrollment
         /\ progress[p1].content = progress[p2].content) => p1 = p2

ProgressRecorded(enrollment, content) ==
    \E p \in DOMAIN progress :
        progress[p].enrollment = enrollment /\ progress[p].content = content

\* A POST /progress that names an enrollment and a content that exist.
C3_Call(status) ==
    /\ req'.op = "progress_create"
    /\ Enrollment_get(req'.data.enrollment) = "found"
    /\ req'.data.content.k \in {"num", "str"} /\ req'.data.content.v \in DOMAIN contents
    /\ enrollments[req'.data.enrollment.v].status \in status

C3_Refused ==
    C3_Call({"pending", "rejected"})
    => resp'.status = 403 /\ progress' = progress

C3_Taken ==
    (C3_Call({"approved"}) /\ ProgressRecorded(req'.data.enrollment.v, req'.data.content.v))
    => resp' = Response(400, "already_recorded") /\ progress' = progress

C3_Free ==
    (C3_Call({"approved"}) /\ ~ProgressRecorded(req'.data.enrollment.v, req'.data.content.v))
    => /\ resp'.status = 201
       /\ DOMAIN progress' = DOMAIN progress \cup {seq.progress}
       /\ seq.progress \notin DOMAIN progress
       /\ progress'[seq.progress].enrollment = req'.data.enrollment.v
       /\ progress'[seq.progress].content = req'.data.content.v
       /\ \A p \in DOMAIN progress : progress'[p] = progress[p]

\* The claim as stated: the first call for a pair succeeds and every later
\* call for the pair fails.
C3_OnceEver ==
    C3_Call({"approved"})
    => (resp'.status = 201
        <=> <<req'.data.enrollment.v, req'.data.content.v>> \notin recorded)

\* C3 as stated: POST /progress for a pending or rejected enrollment fails and
\* creates nothing; for an approved one it succeeds for a given (enrollment,
\* content) pair exactly once, every later call for the pair failing; there
\* is at most one StudentProgress per pair.
C3_Original == []UniqueProgress /\ [][C3_Refused /\ C3_OnceEver]_vars

\* C3 amended: POST /progress for a pending or rejected enrollment fails and
\* creates nothing; for an approved one it succeeds exactly when no
\* StudentProgress row holds the (enrollment, content) pair at the time of the
\* call, and fails creating nothing when one does; there is at most one
\* StudentProgress per pair.
C3_OncePerPair == []UniqueProgress /\ [][C3_Refused /\ C3_Taken /\ C3_Free]_vars

\* C3 witness: a second POST /progress for a pair of an approved enrollment
\* has just been refused.
C3_Witness ==
    /\ req.op = "progress_create"
    /\ resp = Response(400, "already_recorded")
    /\ enrollments[req.data.enrollment.v].status = "approved"
    /\ ProgressRecorded(req.data.enrollment.v, req.data.content.v)

\* C3 witness of the first half: a POST /progress for a rejected enrollment
\* has just been refused.
C3_WitnessRejected ==
    /\ req.op = "progress_create"
    /\ resp = Response(403, "not_approved")
    /\ enrollments[req.data.enrollment.v].status = "rejected"

(***************************************************************************)
(* Properties of the catalog (SpecCatalog).                                *)
(***************************************************************************)
\* C5: a request of a caller who is no admin leaves the Course and the
\* CourseContent rows as they are.
C5_AdminOnlyWrites ==
    [][(req'.op # "none" /\ role(req'.user) # "admin")
       => courses' = courses /\ contents' = contents]_vars

\* The Course half of C5, which the code keeps.
C5_CoursesAdminOnly ==
    [][(req'.op # "none" /\ role(req'.user) # "admin") => courses' = courses]_vars

(***************************************************************************)
(* Properties of registration (SpecAuth).                                  *)
(***************************************************************************)
\* The body is valid but for its admin_secret: a fresh email and a password
\* long enough.
OtherwiseValid(data) ==
    /\ \A u \in DOMAIN users : users[u].email # data.email
    /\ data.password >= MinPasswordLength

WrongSecret(data) ==
    /\ data.has_secret
    /\ data.admin_secret # <<>>
    /\ data.admin_secret # ADMIN_REGISTRATION_SECRET

RightSecret(data) == data.has_secret /\ data.admin_secret = ADMIN_REGISTRATION_SECRET

C6_Step ==
    LET data == req'.data
    IN  req'.op = "register"
        => /\ WrongSecret(data) => resp'.status = 400 /\ users' = users
           /\ (OtherwiseValid(data) /\ ~WrongSecret(data))
              => /\ resp'.status = 201
                 /\ users' = Insert(users, seq.user,
                                    User(data.email,
                                         IF RightSecret(data) THEN "admin" ELSE "student"))
                 /\ seq.user \notin DOMAIN users
           /\ resp'.status = 201 => OtherwiseValid(data) /\ ~WrongSecret(data)

\* C6: a registration whose admin_secret is present, not empty and not the
\* configured secret is refused with HTTP 400 and creates no user; an
\* otherwise valid registration without a secret, or with an empty one,
\* creates a student; with the configured secret it creates an admin; the
\* role the body names plays no part.
C6_RoleFromSecret == [][C6_Step]_vars

\* C6 witness: a body that names the role admin and carries no secret has
\* just created a student.
C6_Witness ==
    /\ req.op = "register"
    /\ req.data.role = "admin"
    /\ ~req.data.has_secret
    /\ resp.status = 201
    /\ \E u \in DOMAIN users : users[u] = User(req.data.email, "student")

\* C6 witness: a wrong secret has just been refused.
C6_WitnessWrong ==
    /\ req.op = "register"
    /\ WrongSecret(req.data)
    /\ strip(req.data.admin_secret) = ADMIN_REGISTRATION_SECRET
    /\ resp = Response(400, "invalid_secret")

\* C6 witness: the configured secret has just created an admin although the
\* body names the role student.
C6_WitnessAdmin ==
    /\ req.op = "register"
    /\ RightSecret(req.data)
    /\ req.data.role = "student"
    /\ resp.status = 201
    /\ \E u \in DOMAIN users : users[u] = User(req.data.email, "admin")

(***************************************************************************)
(* Properties of the content listing (SpecListing).                        *)
(***************************************************************************)
\* The contents a caller is meant to see.
Visible(user) ==
    IF role(user) = "admin" THEN DOMAIN contents
    ELSE {c \in DOMAIN contents :
            /\ contents[c].is_active
            /\ \E e \in DOMAIN enrollments :
                   /\ enrollments[e].student = user
                   /\ enrollments[e].course = contents[c].course
                   /\ enrollments[e].status = "approved"}

\* C11: GET /contents by a user answers 200 with, each once, every content
\* for an admin and, for a student, exactly the active contents of the
\* courses in which the student holds an approved enrollment now; so a
\* student whose enrollment is rejected is shown no content of that course.
C11_ListingByRole ==
    (req.op = "content_list" /\ req.user \in DOMAIN users)
    => /\ resp.status = 200
       /\ resp.data = [c \in Visible(req.user) |-> 1]

\* C11 witness: a student whose enrollment is rejected has just listed the
\* contents and got none, although the course has an active content.
C11_Witness ==
    /\ req.op = "content_list"
    /\ role(req.user) = "student"
    /\ \E e \in DOMAIN enrollments :
           /\ enrollments[e].student = req.user
           /\ enrollments[e].status = "rejected"
           /\ \E c \in DOMAIN contents :
                  contents[c].course = enrollments[e].course /\ contents[c].is_active
    /\ resp.status = 200
    /\ DOMAIN resp.data = {}

\* C11 witness: a student with an approved enrollment has just listed the
\* contents and got the active one of two.
C11_WitnessApproved ==
    /\ req.op = "content_list"
    /\ role(req.user) = "student"
    /\ resp.status = 200
    /\ DOMAIN resp.data # {}
    /\ DOMAIN resp.data # DOMAIN contents

(***************************************************************************)
(* Properties of the progress report (SpecReport).                         *)
(***************************************************************************)
Report == resp.data

\* The enrollment a report that succeeded is about.
Reported ==
    LET student == IF req.data.student_id # Absent /\ role(req.user) = "admin"
                   THEN req.data.student_id.v ELSE req.user
    IN  CHOOSE e \in DOMAIN enrollments :
            /\ enrollments[e].course = req.data.course_id.v
            /\ enrollments[e].student = student

Answered == req.op = "course_progress" /\ resp.status = 200

\* C12: a course_progress call that finds its enrollment reports
\* total_contents = the number of active contents of the course,
\* completed_contents = the number of the enrollment's progress rows with
\* is_completed true, and completion_percentage = completed_contents /
\* total_contents * 100, which is 0 when the course has no active content.
C12_ReportCounts ==
    Answered
    => LET total == Cardinality({c \in DOMAIN contents :
                        /\ contents[c].course = req.data.course_id.v
                        /\ contents[c].is_active})
           completed == Cardinality({p \in DOMAIN progress :
                        /\ progress[p].enrollment = Reported
                        /\ progress[p].is_completed})
       IN  /\ Report.total_contents = total
           /\ Report.completed_contents = completed
           /\ Report.completion_percentage.den > 0
           /\ total > 0 =>
                Report.completion_percentage.num * total
                    = completed * 100 * Report.completion_percentage.den
           /\ total = 0 => Report.completion_percentage.num = 0

\* C12 witness: a report of a course without active content, for an
\* enrollment that has a completed progress row, answered 0 percent.
C12_Witness ==
    /\ Answered
    /\ Report.total_contents = 0
    /\ Report.completed_contents > 0
    /\ Report.completion_percentage.num = 0

\* C12 witness: a report answered 100 percent of one active content.
C12_WitnessFull ==
    /\ Answered
    /\ Report.total_contents = 1
    /\ Report.completed_contents = 1
    /\ Report.completion_percentage = [num |-> 100, den |-> 1]

\* C18: every report has completed_contents <= total_contents and a
\* completion_percentage within [0,100].
C18_ReportWithinRange ==
    Answered
    => /\ Report.completed_contents <= Report.total_contents
       /\ 0 <= Report.completion_percentage.num
       /\ Report.completion_percentage.num <= 100 * Report.completion_percentage.den

(***************************************************************************)
(* Properties of the accounts (SpecUsers).                                 *)
(***************************************************************************)
\* C16: no request changes the role of a user that exists before and after
\* it: registration, login, GET/POST/PUT/PATCH/DELETE on /users by anyone,
\* approve and reject leave every existing role as it was, whatever role
\* the request body names.
C16_RoleFixed ==
    [][\A u \in DOMAIN users \cap DOMAIN users' : users'[u].role = users[u].role]_vars

\* C16 witness: the admin has just edited student 2 with a body that names
\* the role admin; the edit was stored and user 2 is still a student.
C16_Witness ==
    /\ req.op \in {"user_update", "user_partial_update"}
    /\ req.pk = 2
    /\ req.data.role = "admin"
    /\ req.data.first_name = Num(1)
    /\ resp.status = 200
    /\ users[2].first_name = 1
    /\ users[2].role = "student"

(***************************************************************************)
(* Properties of requests without a credential (SpecAnonymous).            *)
(***************************************************************************)
\* C13: a request without a valid credential to any endpoint but register
\* and login is answered with an error, carries no rows back and leaves
\* every table as it was.
C13_AnonymousRejected ==
    [][(req'.user \notin DOMAIN users /\ req'.op \notin {"register", "login"})
        => /\ resp'.status >= 400
           /\ "data" \notin DOMAIN resp'
           /\ <<users, courses, contents, enrollments, progress>>'
                = <<users, courses, contents, enrollments, progress>>]_vars

\* The part of C13 that holds: no request without a credential changes a
\* table.
C13_AnonymousWritesNothing ==
    [][req'.user \notin DOMAIN users /\ req'.op \notin {"register", "login"}
        => <<users, courses, contents, enrollments, progress>>'
                = <<users, courses, contents, enrollments, progress>>]_vars

(***************************************************************************)
(* Properties of the status a client asks for (SpecStatus).                *)
(***************************************************************************)
\* C15: in every reachable state the status of every enrollment is pending,
\* approved or rejected, never completed.
C15_NeverCompleted ==
    \A e \in DOMAIN enrollments :
        enrollments[e].status \in {"pending", "approved", "rejected"}

\* The part of C15 that holds: a stored status is one of ENROLLMENT_STATUS.
C15_StatusIsAChoice ==
    \A e \in DOMAIN enrollments : enrollments[e].status \in ENROLLMENT_STATUS

(***************************************************************************)
(* Who records progress (SpecProgress).                                    *)
(***************************************************************************)
\* C17: a POST /progress by a non-admin caller that creates a row creates
\* it for an enrollment whose student is the caller.
C17_OwnEnrollmentOnly ==
    [][(/\ req'.op = "progress_create"
        /\ role(req'.user) # "admin"
        /\ resp'.status = 201)
        => \A p \in DOMAIN progress' \ DOMAIN progress :
               enrollments[progress'[p].enrollment].student = req'.user]_vars

(***************************************************************************)
(* Properties of overlapping creates (SpecRace).                           *)
(***************************************************************************)
\* A worker has just finished the create it had validated.
Finished(w) == inflight[w] # Idle /\ inflight'[w] = Idle

C14_Step ==
    \A w \in Workers :
        Finished(w)
        => /\ resp'.status \in {201, 400, 409}
           /\ resp'.status # 201 => enrollments' = enrollments /\ progress' = progress

\* C14: when two creates of one pair have both passed the checks, one
\* creates the row and the other ends with the conflict error (a 4xx
\* answer), never with an unhandled failure, and no pair gets two rows.
C14_RaceEndsInConflict == [](UniquePairs /\ UniqueProgress) /\ [][C14_Step]_vars

\* The part of C14 that holds: the unique indexes keep every pair to one
\* row whatever the interleaving.
C14_NoDuplicateRows == UniquePairs /\ UniqueProgress

\* Both workers had validated a create of the same pair, and the second to
\* save has just got the IntegrityError.
C14_RaceLost ==
    /\ req.op \in {"enrollment_create", "progress_create"}
    /\ resp = IntegrityError

====
